---------------------------- MODULE Spec2Model ----------------------------
(***************************************************************************)
(* Model of the static allocator of GLUS, src/GLUS/src/glus_memory_no_dm.c *)
(* : the memory table g_memoryTable, the entry counter g_memoryTableEntries*)
(* , the arena g_memory, and the public operations glusMalloc and glusFree *)
(* together with the static helpers they call.  Sizes are size_t values,   *)
(* kept modulo 2^SIZE_BITS.  Pointers are integers: NULL is 0 and the word *)
(* g_memory[w] lives at G_MEMORY + 4*w.                                    *)
(***************************************************************************)
EXTENDS Integers, FiniteSets, Sequences, TLC

VARIABLES g_memoryTable, g_memoryTableEntries, g_memory, last, collect

vars == <<g_memoryTable, g_memoryTableEntries, g_memory, last, collect>>

(***************************************************************************)
(* Bounds of the model.                                                    *)
(***************************************************************************)
\* scale of the arena: the source's 1024*1024 in "16*1024*1024/4"
MemScale == 3

\* width of size_t in bits
SIZE_BITS == 5

(***************************************************************************)
(* Program constants.                                                      *)
(***************************************************************************)
\* number of memory table entries, scaled down from the source's 1024
GLUS_MEMORY_TABLE_ENTRIES == 3

GLUS_MEMORY_SIZE == (16 * MemScale) \div 4

SIZE_MOD == 2 ^ SIZE_BITS

SIZE_MAX == SIZE_MOD - 1

GLUS_TRUE == TRUE

GLUS_FALSE == FALSE

NULL == 0

\* address of g_memory[0]
G_MEMORY == 1000

\* a pointer of the caller that is no address of the arena
FOREIGN == G_MEMORY - 4

Addr(w) == G_MEMORY + 4 * w

TableIndices == 0 .. (GLUS_MEMORY_TABLE_ENTRIES - 1)

MemoryIndices == 0 .. (GLUS_MEMORY_SIZE - 1)

\* the values a caller stores into a word of memory it was given
UserWords == {0, Addr(1)}

\* the sizes a caller asks for
Sizes == {0, 1, SIZE_MAX} \cup {4 * k : k \in 1 .. (GLUS_MEMORY_SIZE \div 4)}

\* the pointers a caller passes to glusFree
Pointers == {NULL, FOREIGN} \cup {Addr(w) : w \in 0 .. 2}

NoIndex == 0 - 1

Min(S) == CHOOSE x \in S : \A y \in S : x <= y

(***************************************************************************)
(* The memory table.                                                       *)
(***************************************************************************)
GLUSmemoryTable(v, f, s, l, p) ==
    [valid |-> v, free |-> f, startIndex |-> s, length |-> l, pointer |-> p]

\* static storage is zero initialized
ZeroEntry == GLUSmemoryTable(GLUS_FALSE, GLUS_FALSE, 0, 0, NULL)

InitialTable ==
    [i \in TableIndices |->
        IF i = 0
        THEN GLUSmemoryTable(GLUS_TRUE, GLUS_TRUE, 0, GLUS_MEMORY_SIZE, G_MEMORY)
        ELSE ZeroEntry]

\* the indices the scanning loops visit
Scanned(n) == {i \in TableIndices : i < n}

glusFindMemoryTableEntry(t, n) ==
    LET cand == {i \in Scanned(n) : ~t[i].valid}
    IN  IF cand = {} THEN [found |-> GLUS_FALSE, index |-> NoIndex]
        ELSE [found |-> GLUS_TRUE, index |-> Min(cand)]

\* the pointer glusInitMemoryTableEntry stores: the word read out of the arena
EntryPointer(mem, startIndex) == mem[startIndex]

glusInitMemoryTableEntry(t, n, mem, tableIndex, startIndex, length) ==
    IF tableIndex >= GLUS_MEMORY_TABLE_ENTRIES
    THEN [ok |-> GLUS_FALSE, table |-> t, entries |-> n]
    ELSE [ok |-> GLUS_TRUE,
          table |-> [t EXCEPT ![tableIndex] =
                        GLUSmemoryTable(GLUS_TRUE, GLUS_TRUE, startIndex, length,
                                        EntryPointer(mem, startIndex))],
          entries |-> IF tableIndex = n THEN n + 1 ELSE n]


(***************************************************************************)
(* glusGarbageCollect: passes over the table until a pass merges nothing.  *)
(***************************************************************************)
\* faulty variant of Adjacent: the length in bytes is added to the word index
AdjacentBytes(a, b) == (a.startIndex + a.length) % SIZE_MOD = b.startIndex

\* line 150: the entry a ends where the entry b starts
Adjacent(a, b) == (a.startIndex + a.length \div 4) % SIZE_MOD = b.startIndex

\* faulty variant of MergeEntries: both flags of the absorbed entry are cleared
MergeEntriesClearFlags(t, tableIndex, otherTableIndex) ==
    [t EXCEPT ![tableIndex].length = (@ + t[otherTableIndex].length) % SIZE_MOD,
              ![otherTableIndex].valid = GLUS_FALSE,
              ![otherTableIndex].free = GLUS_FALSE]

\* faulty variant of MergeEntries: the absorbed entry stays valid
MergeEntriesKeepValid(t, tableIndex, otherTableIndex) ==
    [t EXCEPT ![tableIndex].length = (@ + t[otherTableIndex].length) % SIZE_MOD]

\* faulty variant of MergeEntries: the length of the absorbed entry is not added
MergeEntriesDropLength(t, tableIndex, otherTableIndex) ==
    [t EXCEPT ![otherTableIndex].valid = GLUS_FALSE]

\* lines 152-156: the entry at tableIndex absorbs the entry at otherTableIndex
MergeEntries(t, tableIndex, otherTableIndex) ==
    [t EXCEPT ![tableIndex].length = (@ + t[otherTableIndex].length) % SIZE_MOD,
              ![otherTableIndex].valid = GLUS_FALSE]

RECURSIVE GCInnerLoop(_, _, _, _)
\* lines 138-161, st = [table, continueGC]
GCInnerLoop(st, n, tableIndex, otherTableIndex) ==
    IF ~(otherTableIndex < n /\ otherTableIndex < GLUS_MEMORY_TABLE_ENTRIES)
    THEN st
    ELSE IF otherTableIndex = tableIndex
    THEN GCInnerLoop(st, n, tableIndex, otherTableIndex + 1)
    ELSE IF /\ st.table[otherTableIndex].valid
            /\ st.table[otherTableIndex].free
            /\ Adjacent(st.table[tableIndex], st.table[otherTableIndex])
    THEN GCInnerLoop([table |-> MergeEntries(st.table, tableIndex, otherTableIndex),
                      continueGC |-> GLUS_TRUE],
                     n, tableIndex, otherTableIndex + 1)
    ELSE GCInnerLoop(st, n, tableIndex, otherTableIndex + 1)

RECURSIVE GCPass(_, _, _)
\* lines 132-165
GCPass(st, n, tableIndex) ==
    IF ~(tableIndex < n /\ tableIndex < GLUS_MEMORY_TABLE_ENTRIES)
    THEN st
    ELSE IF st.table[tableIndex].valid /\ st.table[tableIndex].free
    THEN GCPass(GCInnerLoop(st, n, tableIndex, 0), n, tableIndex + 1)
    ELSE GCPass(st, n, tableIndex + 1)

\* faulty variant of glusGarbageCollect: one pass only, continueGC is not looked at
GarbageCollectOnePass(t, n) ==
    GCPass([table |-> t, continueGC |-> GLUS_FALSE], n, 0).table

RECURSIVE glusGarbageCollect(_, _)
\* lines 123-166: the table after collection
glusGarbageCollect(t, n) ==
    LET st == GCPass([table |-> t, continueGC |-> GLUS_FALSE], n, 0)
    IN  IF st.continueGC THEN glusGarbageCollect(st.table, n) ELSE st.table

(***************************************************************************)
(* glusInternalMalloc                                                      *)
(***************************************************************************)
\* faulty variant of AllocatedLength: the alignment is not forced
AllocatedLengthUnaligned(size) == size

\* line 174: force 4 byte alignment
AllocatedLength(size) ==
    IF size % 4 = 0 THEN size ELSE ((size \div 4 + 1) * 4) % SIZE_MOD

\* faulty variant of Fits: an entry of exactly the size is passed over
FitsStrict(t, n, size) ==
    {i \in Scanned(n) : t[i].valid /\ t[i].free /\ t[i].length > size}

\* line 184: the entries where the size fits in
Fits(t, n, size) ==
    {i \in Scanned(n) : t[i].valid /\ t[i].free /\ t[i].length >= size}

\* faulty variant of GrantEntry: the granted length is not stored
GrantEntryKeepLength(e, allocatedLength) ==
    [e EXCEPT !.free = GLUS_FALSE]

\* lines 201-203: the entry now manages the requested memory
GrantEntry(e, allocatedLength) ==
    [e EXCEPT !.free = GLUS_FALSE, !.length = allocatedLength]

\* lines 188-192: the entry that takes the rest of the memory
OtherTableIndex(t, n, tableIndex) ==
    LET f == glusFindMemoryTableEntry(t, n)
    IN  IF f.found THEN f.index ELSE tableIndex + 1

\* lines 169-212: [table, entries, ret, index]; index is the granted entry
glusInternalMalloc(t, n, mem, size) ==
    LET allocatedLength == AllocatedLength(size)
        none == [table |-> t, entries |-> n, ret |-> NULL, index |-> NoIndex]
    IN  IF allocatedLength < size THEN none
        ELSE IF Fits(t, n, size) = {} THEN none
        ELSE
          LET tableIndex == Min(Fits(t, n, size))
              otherTableIndex == OtherTableIndex(t, n, tableIndex)
              r == glusInitMemoryTableEntry(t, n, mem, otherTableIndex,
                      (t[tableIndex].startIndex + allocatedLength \div 4) % SIZE_MOD,
                      (t[tableIndex].length - allocatedLength) % SIZE_MOD)
              granted == IF r.ok THEN allocatedLength ELSE t[tableIndex].length
              t2 == [r.table EXCEPT ![tableIndex] = GrantEntry(@, granted)]
          IN  [table |-> t2, entries |-> r.entries,
               ret |-> t2[tableIndex].pointer, index |-> tableIndex]

(***************************************************************************)
(* glusMalloc and glusFree                                                 *)
(***************************************************************************)
\* faulty variant of IsZeroSize: the request of size 0 is not turned away
IsZeroSizeNever(size) == FALSE

\* line 220
IsZeroSize(size) == size = 0

\* faulty variant of MallocResult: collects before the first attempt and
\* does not try again
MallocResultCollectFirst(t, n, mem, size) ==
    IF IsZeroSize(size)
    THEN [table |-> t, entries |-> n, ret |-> NULL, index |-> NoIndex,
          allocs |-> 0, gcs |-> 0]
    ELSE LET only == glusInternalMalloc(glusGarbageCollect(t, n), n, mem, size)
         IN  [table |-> only.table, entries |-> only.entries,
              ret |-> only.ret, index |-> only.index,
              allocs |-> 1, gcs |-> 1]

\* lines 216-238: [table, entries, ret, index, allocs, gcs]
MallocResult(t, n, mem, size) ==
    IF IsZeroSize(size)
    THEN [table |-> t, entries |-> n, ret |-> NULL, index |-> NoIndex,
          allocs |-> 0, gcs |-> 0]
    ELSE LET first == glusInternalMalloc(t, n, mem, size)
         IN  IF first.ret # NULL
             THEN [table |-> first.table, entries |-> first.entries,
                   ret |-> first.ret, index |-> first.index,
                   allocs |-> 1, gcs |-> 0]
             ELSE LET second == glusInternalMalloc(
                                    glusGarbageCollect(first.table, first.entries),
                                    first.entries, mem, size)
                  IN  [table |-> second.table, entries |-> second.entries,
                       ret |-> second.ret, index |-> second.index,
                       allocs |-> 2, gcs |-> 1]

\* lines 240-262: the table after glusFree(pointer)
FreeResult(t, n, pointer) ==
    LET match == {i \in Scanned(n) : t[i].pointer = pointer}
    IN  IF pointer = NULL \/ match = {} THEN t
        ELSE [t EXCEPT ![Min(match)].free = GLUS_TRUE]

\* the words of a region of length bytes that starts at the address pointer
WordsAt(pointer, length) ==
    {w \in MemoryIndices : Addr(w) >= pointer /\ Addr(w) < pointer + length}

(***************************************************************************)
(* State machine.  last records the last call of the caller: the operation, *)
(* its argument, the pointer returned, the entry granted and the numbers of *)
(* glusInternalMalloc and glusGarbageCollect calls made.  collect is the    *)
(* position of a glusGarbageCollect call in progress; in Spec every call is *)
(* one step and collect stays NotCollecting.                                *)
(***************************************************************************)
\* no glusGarbageCollect call is in progress
NotCollecting == [pc |-> "idle", size |-> 0, tableIndex |-> 0,
                  continueGC |-> GLUS_FALSE]

NoCall == [op |-> "none", arg |-> 0, ret |-> NULL, index |-> NoIndex,
           allocs |-> 0, gcs |-> 0]

Init ==
    /\ g_memoryTable = InitialTable
    /\ g_memoryTableEntries = 1
    /\ g_memory = [w \in MemoryIndices |-> 0]
    /\ last = NoCall
    /\ collect = NotCollecting

glusMalloc(size) ==
    LET r == MallocResult(g_memoryTable, g_memoryTableEntries, g_memory, size)
    IN  /\ collect.pc = "idle"
        /\ g_memoryTable' = r.table
        /\ g_memoryTableEntries' = r.entries
        /\ last' = [op |-> "malloc", arg |-> size, ret |-> r.ret,
                    index |-> r.index, allocs |-> r.allocs, gcs |-> r.gcs]
        /\ UNCHANGED <<g_memory, collect>>

glusFree(pointer) ==
    /\ collect.pc = "idle"
    /\ g_memoryTable' = FreeResult(g_memoryTable, g_memoryTableEntries, pointer)
    /\ last' = [op |-> "free", arg |-> pointer, ret |-> NULL,
                index |-> NoIndex, allocs |-> 0, gcs |-> 0]
    /\ UNCHANGED <<g_memoryTableEntries, g_memory, collect>>

\* the caller stores value into a word of the region glusMalloc just returned
CallerWrite(w, value) ==
    /\ collect.pc = "idle"
    /\ last.op = "malloc"
    /\ last.ret # NULL
    /\ w \in WordsAt(last.ret, last.arg)
    /\ g_memory[w] # value
    /\ g_memory' = [g_memory EXCEPT ![w] = value]
    /\ UNCHANGED <<g_memoryTable, g_memoryTableEntries, last, collect>>

Next ==
    \/ \E size \in Sizes : glusMalloc(size)
    \/ \E pointer \in Pointers : glusFree(pointer)
    \/ \E w \in MemoryIndices, value \in UserWords : CallerWrite(w, value)

Spec == Init /\ [][Next]_vars

TypeOK ==
    /\ g_memoryTableEntries \in 1 .. GLUS_MEMORY_TABLE_ENTRIES
    /\ \A i \in TableIndices :
          /\ g_memoryTable[i].startIndex \in 0 .. SIZE_MAX
          /\ g_memoryTable[i].length \in 0 .. SIZE_MAX

(***************************************************************************)
(* Vocabulary of the properties.                                           *)
(***************************************************************************)
\* the activated slots, [0, liveCount)
Live == Scanned(g_memoryTableEntries)

IsAllocated(e) == e.valid /\ ~e.free

IsFree(e) == e.valid /\ e.free

\* the byte range [startIndex*4, startIndex*4 + length) of an entry
ByteRange(e) == (e.startIndex * 4) .. (e.startIndex * 4 + e.length - 1)

AllocatedSlots(t, n) == {i \in Scanned(n) : IsAllocated(t[i])}

FreeSlots(t, n) == {i \in Scanned(n) : IsFree(t[i])}

(***************************************************************************)
(* C1: in every reachable state, any two distinct table entries that are   *)
(* valid and not free have disjoint byte ranges                            *)
(* [startIndex*4, startIndex*4 + length).                                  *)
(***************************************************************************)
C1_AllocatedDisjoint ==
    \A i, j \in AllocatedSlots(g_memoryTable, g_memoryTableEntries) :
        i # j => ByteRange(g_memoryTable[i]) \cap ByteRange(g_memoryTable[j]) = {}

\* glusMalloc has just granted a block while another non-empty block is allocated
C1_Witness ==
    /\ last.op = "malloc"
    /\ last.index # NoIndex
    /\ \E j \in AllocatedSlots(g_memoryTable, g_memoryTableEntries) :
          /\ j # last.index
          /\ g_memoryTable[j].length > 0
          /\ g_memoryTable[last.index].length > 0

(***************************************************************************)
(* C2: in every reachable state the byte ranges of the Allocated and Free  *)
(* blocks in the first g_memoryTableEntries slots exactly tile the arena   *)
(* range the table starts with: no gap, no overlap, no region lost.        *)
(***************************************************************************)
ValidSlots(t, n) == {i \in Scanned(n) : t[i].valid}

ArenaBytes == 0 .. (GLUS_MEMORY_SIZE - 1)

C2_ExactTiling ==
    LET V == ValidSlots(g_memoryTable, g_memoryTableEntries)
    IN  /\ \A i \in V : ByteRange(g_memoryTable[i]) \subseteq ArenaBytes
        /\ \A b \in ArenaBytes :
              Cardinality({i \in V : b \in ByteRange(g_memoryTable[i])}) = 1

(***************************************************************************)
(* C3: in every reachable state, for all s with 0 < s <= total free        *)
(* capacity (the sum of the lengths of all Free blocks), glusMalloc(s)     *)
(* returns a non-null pointer.                                             *)
(***************************************************************************)
RECURSIVE SumLength(_, _)
SumLength(t, S) ==
    IF S = {} THEN 0
    ELSE LET i == Min(S) IN t[i].length + SumLength(t, S \ {i})

TotalFree(t, n) == SumLength(t, FreeSlots(t, n))

C3_MallocWithinFreeSucceeds ==
    \A s \in Sizes :
        (0 < s /\ s <= TotalFree(g_memoryTable, g_memoryTableEntries))
        => MallocResult(g_memoryTable, g_memoryTableEntries, g_memory, s).ret # NULL

(***************************************************************************)
(* C4: whenever allocate has found a Free block that fits and marked it    *)
(* Allocated, the pointer returned is non-null and equals the arena base   *)
(* plus 4 times the start of that block.                                   *)
(***************************************************************************)
C4_ReturnsBlockAddress ==
    (last.op = "malloc" /\ last.index # NoIndex)
    => /\ last.ret # NULL
       /\ last.ret = Addr(g_memoryTable[last.index].startIndex)

(***************************************************************************)
(* C5: in every reachable state, if p is the address of a currently        *)
(* Allocated block, glusFree(p) turns exactly that block Free in place:    *)
(* its start and length, g_memoryTableEntries and every other entry are    *)
(* unchanged.                                                              *)
(***************************************************************************)
C5_FreeReleasesBlock ==
    [][\A p \in Pointers, i \in TableIndices :
          ( /\ glusFree(p)
            /\ i \in AllocatedSlots(g_memoryTable, g_memoryTableEntries)
            /\ p = Addr(g_memoryTable[i].startIndex) )
          => /\ g_memoryTable' = [g_memoryTable EXCEPT ![i].free = GLUS_TRUE]
             /\ g_memoryTableEntries' = g_memoryTableEntries]_vars

(***************************************************************************)
(* C6: glusFree(NULL) changes nothing, and glusFree of a pointer that is   *)
(* not the start address of any tracked block leaves every table entry and *)
(* g_memoryTableEntries unchanged.                                         *)
(***************************************************************************)
IsBlockStart(t, n, p) == \E i \in ValidSlots(t, n) : p = Addr(t[i].startIndex)

C6_InvalidReleaseIgnored ==
    [][\A p \in Pointers :
          ( /\ glusFree(p)
            /\ \/ p = NULL
               \/ ~IsBlockStart(g_memoryTable, g_memoryTableEntries, p) )
          => UNCHANGED <<g_memoryTable, g_memoryTableEntries>>]_vars

(***************************************************************************)
(* C7: glusMalloc(0) returns null, changes no table entry and not          *)
(* g_memoryTableEntries, and does not run the collector.                   *)
(***************************************************************************)
C7_MallocZeroNoEffect ==
    [][glusMalloc(0)
          => /\ last'.ret = NULL
             /\ last'.gcs = 0
             /\ last'.allocs = 0
             /\ UNCHANGED <<g_memoryTable, g_memoryTableEntries>>]_vars

\* glusMalloc(0) was called in a state where a Free block exists that any
\* positive request up to its length would have been granted from
C7_Witness ==
    /\ last.op = "malloc"
    /\ last.arg = 0
    /\ g_memoryTableEntries > 1
    /\ \E i \in FreeSlots(g_memoryTable, g_memoryTableEntries) :
          g_memoryTable[i].length > 0

(***************************************************************************)
(* C8: whenever no block is left Allocated, collection merges all free     *)
(* space into exactly one Free block spanning the full arena, and a        *)
(* following glusMalloc of the full capacity returns offset 0.             *)
(***************************************************************************)
C8_CollectRestoresArena ==
    (last.op # "none" /\ AllocatedSlots(g_memoryTable, g_memoryTableEntries) = {})
    => LET g == glusGarbageCollect(g_memoryTable, g_memoryTableEntries)
           F == FreeSlots(g, g_memoryTableEntries)
       IN  /\ Cardinality(F) = 1
           /\ \A i \in F : g[i].startIndex = 0 /\ g[i].length = GLUS_MEMORY_SIZE
           /\ MallocResult(g, g_memoryTableEntries, g_memory, GLUS_MEMORY_SIZE).ret
                 = Addr(0)

(***************************************************************************)
(* C9: collection is idempotent: from every reachable state, a second run  *)
(* of glusGarbageCollect right after a first run changes no table entry.   *)
(***************************************************************************)
C9_CollectIdempotent ==
    LET g == glusGarbageCollect(g_memoryTable, g_memoryTableEntries)
    IN  glusGarbageCollect(g, g_memoryTableEntries) = g

\* a state where the first run merges blocks
C9_Witness ==
    /\ last.op = "free"
    /\ glusGarbageCollect(g_memoryTable, g_memoryTableEntries) # g_memoryTable

(***************************************************************************)
(* C10: when allocate chooses a Free block longer than the rounded size    *)
(* and no slot is available for the remainder (no Unused slot in the first *)
(* g_memoryTableEntries slots and g_memoryTableEntries equal to the table  *)
(* capacity), the chosen block becomes Allocated with its full length, its *)
(* address is returned and every other entry is unchanged.                 *)
(***************************************************************************)
C10_ExhaustionGrantsFullBlock ==
    \A s \in Sizes :
        LET r == glusInternalMalloc(g_memoryTable, g_memoryTableEntries, g_memory, s)
            i == r.index
        IN  ( /\ i # NoIndex
              /\ g_memoryTable[i].length > AllocatedLength(s)
              /\ ~glusFindMemoryTableEntry(g_memoryTable, g_memoryTableEntries).found
              /\ g_memoryTableEntries = GLUS_MEMORY_TABLE_ENTRIES )
            => /\ r.table = [g_memoryTable EXCEPT ![i].free = GLUS_FALSE]
               /\ r.entries = g_memoryTableEntries
               /\ r.ret = Addr(g_memoryTable[i].startIndex)

(***************************************************************************)
(* C11: for every requested size whose rounding up to a multiple of 4      *)
(* overflows size_t, glusMalloc returns null and marks no block Allocated; *)
(* for every other size > 0, a block granted for the request has a length  *)
(* that is a multiple of 4 and not less than the requested size.           *)
(***************************************************************************)
\* the size rounded up to the next multiple of 4, without wrap-around
RoundedSize(size) == ((size + 3) \div 4) * 4

RoundingOverflows(size) == RoundedSize(size) > SIZE_MAX

C11_OverflowAndRounding ==
    /\ \A s \in 1 .. SIZE_MAX :
          LET r == MallocResult(g_memoryTable, g_memoryTableEntries, g_memory, s)
              a == glusInternalMalloc(g_memoryTable, g_memoryTableEntries, g_memory, s)
          IN  IF RoundingOverflows(s)
              THEN /\ r.ret = NULL
                   /\ r.index = NoIndex
                   /\ AllocatedSlots(r.table, r.entries)
                         = AllocatedSlots(g_memoryTable, g_memoryTableEntries)
                   /\ \A i \in AllocatedSlots(r.table, r.entries) :
                         r.table[i] = g_memoryTable[i]
              ELSE /\ a.index # NoIndex
                      => /\ IsAllocated(a.table[a.index])
                         /\ a.table[a.index].length % 4 = 0
                         /\ a.table[a.index].length >= s
                   /\ r.index # NoIndex
                      => /\ IsAllocated(r.table[r.index])
                         /\ r.table[r.index].length % 4 = 0
                         /\ r.table[r.index].length >= s
    /\ (last.op = "malloc" /\ last.index # NoIndex)
       => /\ g_memoryTable[last.index].length % 4 = 0
          /\ g_memoryTable[last.index].length >= last.arg

\* glusMalloc was called with a size whose rounding overflows while Free and
\* Allocated blocks were there
C11_Witness ==
    /\ last.op = "malloc"
    /\ last.arg = SIZE_MAX
    /\ RoundingOverflows(last.arg)
    /\ last.ret = NULL
    /\ FreeSlots(g_memoryTable, g_memoryTableEntries) # {}
    /\ AllocatedSlots(g_memoryTable, g_memoryTableEntries) # {}

(***************************************************************************)
(* C12: a glusMalloc(size > 0) call allocates once; only if that returns   *)
(* null it collects once and allocates exactly once more, and it returns   *)
(* the result of the last allocate.  The collector runs at most once per   *)
(* call, never when the first allocate succeeds, and never in glusFree.    *)
(***************************************************************************)
C12_CallOrder ==
    [][/\ \A s \in Sizes :
            (glusMalloc(s) /\ s > 0)
            => LET first == glusInternalMalloc(g_memoryTable, g_memoryTableEntries,
                                               g_memory, s)
                   second == glusInternalMalloc(
                                 glusGarbageCollect(first.table, first.entries),
                                 first.entries, g_memory, s)
               IN  IF first.ret # NULL
                   THEN /\ g_memoryTable' = first.table
                        /\ g_memoryTableEntries' = first.entries
                        /\ last'.ret = first.ret
                        /\ last'.allocs = 1
                        /\ last'.gcs = 0
                   ELSE /\ g_memoryTable' = second.table
                        /\ g_memoryTableEntries' = second.entries
                        /\ last'.ret = second.ret
                        /\ last'.allocs = 2
                        /\ last'.gcs = 1
       /\ \A p \in Pointers :
            glusFree(p)
            => /\ last'.gcs = 0
               /\ \A i \in TableIndices :
                     \/ g_memoryTable'[i] = g_memoryTable[i]
                     \/ g_memoryTable'[i] = [g_memoryTable[i] EXCEPT !.free = GLUS_TRUE]
      ]_vars

\* a glusMalloc call whose first attempt failed, that collected and whose
\* second attempt returned a pointer
C12_Witness ==
    /\ last.op = "malloc"
    /\ last.arg > 0
    /\ last.allocs = 2
    /\ last.gcs = 1
    /\ last.ret # NULL

(***************************************************************************)
(* C13: the slot allocate activates for a split remainder is, right before *)
(* the activation, an Unused slot inside the first g_memoryTableEntries    *)
(* slots or the never activated slot at index g_memoryTableEntries;        *)
(* allocate never overwrites the entry of a Free or Allocated block.       *)
(***************************************************************************)
C13_RemainderSlotWasUnused ==
    \A s \in Sizes :
        LET r == glusInternalMalloc(g_memoryTable, g_memoryTableEntries, g_memory, s)
            i == r.index
            o == OtherTableIndex(g_memoryTable, g_memoryTableEntries, i)
        IN  (s > 0 /\ i # NoIndex)
            => /\ o < GLUS_MEMORY_TABLE_ENTRIES
                  => \/ o < g_memoryTableEntries /\ ~g_memoryTable[o].valid
                     \/ o = g_memoryTableEntries
               /\ \A j \in ValidSlots(g_memoryTable, g_memoryTableEntries) \ {i} :
                     r.table[j] = g_memoryTable[j]

(***************************************************************************)
(* C14: when allocate splits the chosen Free block, the chosen block       *)
(* becomes Allocated with the rounded size as length and its start         *)
(* unchanged, and the new Free block starts at chosen start + rounded      *)
(* size / 4 with the original length minus the rounded size as length; a   *)
(* split happens only when that remainder is > 0, so an exact fit changes  *)
(* no other slot and not g_memoryTableEntries, and no Free or Allocated    *)
(* block ever has length 0.                                                *)
(***************************************************************************)
C14_SplitGeometry ==
    /\ \A s \in Sizes :
          LET t == g_memoryTable
              r == glusInternalMalloc(t, g_memoryTableEntries, g_memory, s)
              i == r.index
              rounded == AllocatedLength(s)
              remainder == t[i].length - rounded
              changed == {o \in TableIndices \ {i} : r.table[o] # t[o]}
          IN  (s > 0 /\ i # NoIndex)
              => /\ IsAllocated(r.table[i])
                 /\ r.table[i].startIndex = t[i].startIndex
                 /\ remainder = 0
                    => /\ changed = {}
                       /\ r.entries = g_memoryTableEntries
                       /\ r.table[i].length = rounded
                 /\ \A o \in changed :
                       /\ remainder > 0
                       /\ r.table[i].length = rounded
                       /\ IsFree(r.table[o])
                       /\ r.table[o].startIndex = t[i].startIndex + rounded \div 4
                       /\ r.table[o].length = remainder
    /\ \A i \in ValidSlots(g_memoryTable, g_memoryTableEntries) :
          g_memoryTable[i].length > 0

(***************************************************************************)
(* C16: in the initial state the table holds exactly one activated slot,   *)
(* a Free block with start 0 whose length in bytes is the capacity of the  *)
(* arena, 4 bytes for each of the GLUS_MEMORY_SIZE words of g_memory.      *)
(***************************************************************************)
C16_InitialBlockSpansArena ==
    last.op = "none"
    => /\ g_memoryTableEntries = 1
       /\ IsFree(g_memoryTable[0])
       /\ g_memoryTable[0].startIndex = 0
       /\ g_memoryTable[0].length = 4 * GLUS_MEMORY_SIZE
       /\ \A w \in MemoryIndices : 4 * w \in ByteRange(g_memoryTable[0])

(***************************************************************************)
(* C15: allocate grants the lowest-index slot, in table order, that is     *)
(* Free with length >= the rounded size, and returns null without changing *)
(* any entry if there is no such slot in the first g_memoryTableEntries    *)
(* slots; the chosen block's length is >= the rounded size, so the         *)
(* remainder never underflows, and all block lengths stay multiples of 4.  *)
(***************************************************************************)
\* the slots of the table t that are Free and long enough for the rounded size
Candidates(t, n, s) ==
    {i \in Scanned(n) : IsFree(t[i]) /\ t[i].length >= RoundedSize(s)}

FirstFitOn(t, n, s) ==
    LET r == glusInternalMalloc(t, n, g_memory, s)
        C == Candidates(t, n, s)
    IN  IF C = {}
        THEN /\ r.index = NoIndex
             /\ r.ret = NULL
             /\ r.table = t
             /\ r.entries = n
        ELSE /\ r.index = Min(C)
             /\ IsAllocated(r.table[Min(C)])
             /\ t[Min(C)].length - AllocatedLength(s) >= 0
             /\ \A i \in ValidSlots(r.table, r.entries) : r.table[i].length % 4 = 0

C15_FirstFit ==
    /\ \A s \in 1 .. SIZE_MAX :
          LET first == glusInternalMalloc(g_memoryTable, g_memoryTableEntries,
                                          g_memory, s)
          IN  /\ FirstFitOn(g_memoryTable, g_memoryTableEntries, s)
              /\ first.ret = NULL
                 => FirstFitOn(glusGarbageCollect(first.table, first.entries),
                               first.entries, s)
    /\ \A i \in ValidSlots(g_memoryTable, g_memoryTableEntries) :
          g_memoryTable[i].length % 4 = 0

\* glusMalloc granted a block behind a Free block of lower index that was too
\* short for the request
C15_Witness ==
    /\ last.op = "malloc"
    /\ last.index > 0
    /\ \E j \in FreeSlots(g_memoryTable, g_memoryTableEntries) :
          /\ j < last.index
          /\ g_memoryTable[j].length > 0
          /\ g_memoryTable[j].length < last.arg

(***************************************************************************)
(* C17: in the table a completed glusGarbageCollect leaves, there are no   *)
(* two distinct Free blocks a, b in the first g_memoryTableEntries slots   *)
(* with a.startIndex + a.length / 4 = b.startIndex.                        *)
(***************************************************************************)
NoAdjacentFree(t, n) ==
    \A a, b \in FreeSlots(t, n) :
        a # b => t[a].startIndex + t[a].length \div 4 # t[b].startIndex

C17_CollectFixedPoint ==
    /\ NoAdjacentFree(glusGarbageCollect(g_memoryTable, g_memoryTableEntries),
                      g_memoryTableEntries)
    /\ (last.op = "malloc" /\ last.gcs = 1 /\ last.index = NoIndex)
       => NoAdjacentFree(g_memoryTable, g_memoryTableEntries)

\* a glusMalloc call has collected and granted nothing: the table is the one
\* the collector left, with a slot it has made Unused and a Free block
C17_Witness ==
    /\ last.op = "malloc"
    /\ last.gcs = 1
    /\ last.index = NoIndex
    /\ \E i \in Live : ~g_memoryTable[i].valid
    /\ \E i \in FreeSlots(g_memoryTable, g_memoryTableEntries) :
          g_memoryTable[i].length > 4

(***************************************************************************)
(* C19: in every reachable state no slot among the first                   *)
(* g_memoryTableEntries is both not valid and not free, and                *)
(* 1 <= g_memoryTableEntries <= GLUS_MEMORY_TABLE_ENTRIES; and             *)
(* g_memoryTableEntries never decreases.                                   *)
(***************************************************************************)
NoUnusedAllocated ==
    /\ \A i \in Live : ~(~g_memoryTable[i].valid /\ ~g_memoryTable[i].free)
    /\ 1 <= g_memoryTableEntries
    /\ g_memoryTableEntries <= GLUS_MEMORY_TABLE_ENTRIES

C19_SlotStatesAndLiveCount ==
    /\ []NoUnusedAllocated
    /\ [][g_memoryTableEntries' >= g_memoryTableEntries]_vars

\* every slot of the table is activated and the collector has made one Unused
C19_Witness ==
    /\ g_memoryTableEntries = GLUS_MEMORY_TABLE_ENTRIES
    /\ \E i \in Live : ~g_memoryTable[i].valid /\ g_memoryTable[i].free
    /\ AllocatedSlots(g_memoryTable, g_memoryTableEntries) # {}

(***************************************************************************)
(* C20: glusGarbageCollect changes only Free blocks: every Allocated block *)
(* keeps its state, start and length, the sum of the lengths of the Free   *)
(* blocks is the same before and after, and so is the set of arena bytes   *)
(* the Free blocks cover.                                                  *)
(***************************************************************************)
FreeBytes(t, n) == UNION {ByteRange(t[i]) : i \in FreeSlots(t, n)}

C20_CollectFrame ==
    LET t == g_memoryTable
        n == g_memoryTableEntries
        g == glusGarbageCollect(t, n)
    IN  /\ AllocatedSlots(g, n) = AllocatedSlots(t, n)
        /\ \A i \in AllocatedSlots(t, n) : g[i] = t[i]
        /\ \A i \in TableIndices \ Scanned(n) : g[i] = t[i]
        /\ TotalFree(g, n) = TotalFree(t, n)
        /\ FreeBytes(g, n) = FreeBytes(t, n)
        /\ FreeSlots(g, n) \subseteq FreeSlots(t, n)

\* a state with an Allocated block where the collector merges Free blocks
\* of positive length
C20_Witness ==
    /\ AllocatedSlots(g_memoryTable, g_memoryTableEntries) # {}
    /\ \E a, b \in FreeSlots(g_memoryTable, g_memoryTableEntries) :
          /\ a # b
          /\ g_memoryTable[a].length > 0
          /\ g_memoryTable[b].length > 0
          /\ Adjacent(g_memoryTable[a], g_memoryTable[b])

(***************************************************************************)
(* The collector step by step.  SpecGC runs glusMalloc as in Spec when the *)
(* first attempt returns a pointer; otherwise the call goes through        *)
(* glusGarbageCollect one iteration of the loop of line 132 at a time, and *)
(* then makes the second attempt.  A call in progress keeps running, which *)
(* is the weak fairness of its steps.                                      *)
(***************************************************************************)
\* the loop of line 132 goes on
InPass == /\ collect.tableIndex < g_memoryTableEntries
          /\ collect.tableIndex < GLUS_MEMORY_TABLE_ENTRIES

\* lines 216-225, 237: glusMalloc when no collection is needed
MallocDirect(size) ==
    /\ \/ IsZeroSize(size)
       \/ glusInternalMalloc(g_memoryTable, g_memoryTableEntries, g_memory, size).ret
             # NULL
    /\ glusMalloc(size)

\* lines 225-231 and 123-130: the first attempt returns null, the collector starts
MallocBeginCollect(size) ==
    LET first == glusInternalMalloc(g_memoryTable, g_memoryTableEntries, g_memory, size)
    IN  /\ collect.pc = "idle"
        /\ ~IsZeroSize(size)
        /\ first.ret = NULL
        /\ g_memoryTable' = first.table
        /\ g_memoryTableEntries' = first.entries
        /\ collect' = [pc |-> "collect", size |-> size, tableIndex |-> 0,
                       continueGC |-> GLUS_FALSE]
        /\ UNCHANGED <<g_memory, last>>

\* lines 132-165: one iteration of the loop over tableIndex
CollectStep ==
    /\ collect.pc = "collect"
    /\ InPass
    /\ LET st == IF IsFree(g_memoryTable[collect.tableIndex])
                 THEN GCInnerLoop([table |-> g_memoryTable,
                                   continueGC |-> collect.continueGC],
                                  g_memoryTableEntries, collect.tableIndex, 0)
                 ELSE [table |-> g_memoryTable, continueGC |-> collect.continueGC]
       IN  /\ g_memoryTable' = st.table
           /\ collect' = [collect EXCEPT !.tableIndex = @ + 1,
                                         !.continueGC = st.continueGC]
    /\ UNCHANGED <<g_memoryTableEntries, g_memory, last>>

\* lines 126-130: memory has been merged, another pass
CollectNextPass ==
    /\ collect.pc = "collect"
    /\ ~InPass
    /\ collect.continueGC
    /\ collect' = [collect EXCEPT !.tableIndex = 0, !.continueGC = GLUS_FALSE]
    /\ UNCHANGED <<g_memoryTable, g_memoryTableEntries, g_memory, last>>

\* lines 126, 234-237: the collector is done, the second attempt
MallocRetry ==
    /\ collect.pc = "collect"
    /\ ~InPass
    /\ ~collect.continueGC
    /\ LET second == glusInternalMalloc(g_memoryTable, g_memoryTableEntries,
                                        g_memory, collect.size)
       IN  /\ g_memoryTable' = second.table
           /\ g_memoryTableEntries' = second.entries
           /\ last' = [op |-> "malloc", arg |-> collect.size, ret |-> second.ret,
                       index |-> second.index, allocs |-> 2, gcs |-> 1]
    /\ collect' = NotCollecting
    /\ UNCHANGED g_memory

NextGC ==
    \/ \E size \in Sizes : MallocDirect(size)
    \/ \E size \in Sizes : MallocBeginCollect(size)
    \/ CollectStep
    \/ CollectNextPass
    \/ MallocRetry
    \/ \E pointer \in Pointers : glusFree(pointer)
    \/ \E w \in MemoryIndices, value \in UserWords : CallerWrite(w, value)

SpecGC ==
    /\ Init
    /\ [][NextGC]_vars
    /\ WF_vars(CollectStep)
    /\ WF_vars(CollectNextPass)
    /\ WF_vars(MallocRetry)

(***************************************************************************)
(* C18: from every reachable state glusGarbageCollect terminates: a        *)
(* collection in progress always comes to its end, where the glusMalloc    *)
(* call that runs it returns.                                              *)
(***************************************************************************)
C18_CollectTerminates == (collect.pc = "collect") ~> (collect.pc = "idle")

\* a pass that has merged blocks is over and the collector goes on
C18_Witness ==
    /\ collect.pc = "collect"
    /\ ~InPass
    /\ collect.continueGC
    /\ \E i \in Live : ~g_memoryTable[i].valid

=============================================================================
